---- MODULE Spec2Model ----
(***************************************************************************)
(* Command dispatch pipeline of the Minecraft Control Program server:      *)
(* MinecraftCommandQueue (queue + bounded history), MinecraftWorldManager  *)
(* with the request validation of api.py, the dispatch loops of            *)
(* BridgeManager and MCPServer, and MinecraftWebSocketBridge's connection  *)
(* handling.  Everything runs on one asyncio event loop, so an action is   *)
(* the code executed between two suspension points of a coroutine.         *)
(***************************************************************************)
EXTENDS Integers, Sequences, FiniteSets, TLC

\* ---------------------------------------------------------------- bounds
MaxCmds == 3        \* add_command calls in a run
MaxClock == 2       \* wall-clock readings are 0..MaxClock
MaxConns == 2       \* inbound connections accepted in a run
MaxTasks == 2       \* dispatch-loop tasks created in a run
MaxInbound == 1     \* inbound messages received per connection
MaxBuilds == 2      \* calls of the world manager in a run
MaxStream == 2      \* messages of one connection in a run of SpecInbound

\* mcp_server.py:70 sets max_history = 1000 and api.py:391 caps limit at 100;
\* the model runs both scaled down, the cap below max_history
history_cap == 1
max_history == 2

None == 0
Conns == 1..MaxConns
Tasks == 1..MaxTasks
Clock == 0..MaxClock
Commands == {"say hi"}
RawCommands == Commands \cup {""}
Positions == {[x |-> 100, y |-> 64, z |-> 100], [x |-> 0, y |-> 64, z |-> 0],
              [x |-> 5, y |-> 64, z |-> 5], [x |-> -7, y |-> -64, z |-> 12]}
Blocks == {"minecraft:stone", "air"}
DataValues == {3}
Limits == 0..(max_history + 2)
ApiLimits == (0 - 2)..(max_history + 2)
MsgTypes == {"ready", "error", "unknown", "malformed"}

VARIABLES
    clock,              \* datetime.now(): the wall clock
    command_queue,      \* MinecraftCommandQueue.command_queue (asyncio.Queue)
    command_history,    \* MinecraftCommandQueue.command_history
    enqueued,           \* records in the order add_command completed
    dequeued,           \* records in the order get_next_command returned them
    minecraft_client,   \* MinecraftWebSocketBridge.minecraft_client
    server,             \* MinecraftWebSocketBridge.server is listening
    conn,               \* per connection: state of its _handle_client call
    outbox,             \* per connection: messages written to it
    inbound,            \* per connection: number of messages received
    replaced,           \* per connection: the connection accepted over it
    running,            \* BridgeManager.running
    mcp_running,        \* MCPServer.running
    task,               \* per dispatch-loop task: owner and position
    calls,              \* send_command calls: record, session seen, result
    log,                \* lines logged by the dispatch loop and send_command
    reads,              \* the last get_history call: limit, history, result
    results,            \* command_result messages received: id, success
    built,              \* calls of the world manager: operation, arguments
    lost                \* records that were queued when a session closed

vars == <<clock, command_queue, command_history, enqueued, dequeued,
          minecraft_client, server, conn, outbox, inbound, replaced,
          running, mcp_running, task, calls, log, reads, results, built, lost>>

ledgerVars == <<clock, command_queue, command_history, enqueued>>
bridgeVars == <<minecraft_client, server, conn, outbox, inbound, replaced>>
loopVars == <<running, mcp_running, task, dequeued, calls, log>>

\* ------------------------------------------------------- sequence helpers
\* Python list slice lst[start:] for any integer start
SliceFrom(lst, start) ==
    LET n == Len(lst)
        s == IF start < 0 THEN (IF start + n < 0 THEN 0 ELSE start + n)
             ELSE (IF start > n THEN n ELSE start)
    IN  SubSeq(lst, s + 1, n)

\* the last k elements of a sequence (all of it when it is shorter)
LastN(lst, k) ==
    IF k >= Len(lst) THEN lst ELSE SubSeq(lst, Len(lst) - k + 1, Len(lst))

Range(s) == {s[i] : i \in 1..Len(s)}

Min(a, b) == IF a < b THEN a ELSE b

\* ------------------------------------------------- MinecraftCommandQueue
\* command_id = f"cmd_{datetime.now().timestamp()}"
command_id(now) == <<"cmd_", now>>

IdNum(id) == id[2]

\* an Optional[Dict] argument is <<>> for None and <<d>> for the dict d
NoMetadata == <<>>

\* the dict {}
EmptyDict == [k \in {} |-> 0]

\* faulty variant: the record is created with a status outside the lifecycle
command_data_pending(obj, now, command, metadata) ==
    [obj |-> obj,
     id |-> command_id(now),
     command |-> command,
     metadata |-> IF metadata = NoMetadata THEN EmptyDict ELSE metadata[1],
     timestamp |-> now,
     status |-> "pending"]

\* the dict built by add_command; obj is the identity of the dict object;
\* `metadata or {}` turns None into the empty dict
command_data(obj, now, command, metadata) ==
    [obj |-> obj,
     id |-> command_id(now),
     command |-> command,
     metadata |-> IF metadata = NoMetadata THEN EmptyDict ELSE metadata[1],
     timestamp |-> now,
     status |-> "queued"]

\* faulty variant: the record is not added to the history
add_to_history_skipped(hist, cd) == hist

\* faulty variant: the record is inserted at the front of the history
add_to_history_front(hist, cd) ==
    LET h == <<cd>> \o hist
    IN  IF Len(h) > max_history THEN SubSeq(h, 1, Len(h) - 1) ELSE h

\* faulty variant: pop() drops the newest entry instead of the oldest
add_to_history_poplast(hist, cd) ==
    LET h == Append(hist, cd)
    IN  IF Len(h) > max_history THEN SubSeq(h, 1, Len(h) - 1) ELSE h

\* _add_to_history: append, then pop(0) when over max_history
add_to_history(hist, cd) ==
    LET h == Append(hist, cd)
    IN  IF Len(h) > max_history THEN Tail(h) ELSE h

\* faulty variant: the newest record is taken instead of the oldest
get_next_command_lifo(q) ==
    [item |-> q[Len(q)], rest |-> SubSeq(q, 1, Len(q) - 1)]

\* get_next_command on a queue that holds a record: the oldest one is
\* removed and returned
get_next_command(q) == [item |-> Head(q), rest |-> Tail(q)]

\* faulty variant: the record taken from the queue leaves the history too
history_after_get_removed(hist, cd) ==
    SelectSeq(hist, LAMBDA r : r.obj # cd.obj)

\* the history after get_next_command returned a record: the call reads
\* command_queue only
history_after_get(hist, cd) == hist

\* get_history: self.command_history[-limit:]
get_history(hist, limit) == SliceFrom(hist, 0 - limit)

Init ==
    /\ clock = 0
    /\ command_queue = <<>>
    /\ command_history = <<>>
    /\ enqueued = <<>>
    /\ dequeued = <<>>
    /\ minecraft_client = None
    /\ server = FALSE
    /\ conn = [c \in Conns |-> "new"]
    /\ outbox = [c \in Conns |-> <<>>]
    /\ inbound = [c \in Conns |-> 0]
    /\ replaced = [c \in Conns |-> None]
    /\ running = FALSE
    /\ mcp_running = FALSE
    /\ task = [t \in Tasks |-> [owner |-> "none", pc |-> "none", held |-> <<>>]]
    /\ calls = <<>>
    /\ log = <<>>
    /\ reads = <<>>
    /\ results = <<>>
    /\ built = <<>>
    /\ lost = {}

\* the wall clock moves forward between two readings
ClockTick ==
    /\ clock < MaxClock
    /\ clock' = clock + 1
    /\ UNCHANGED <<command_queue, command_history, enqueued, reads, results, built, lost>>
    /\ UNCHANGED bridgeVars
    /\ UNCHANGED loopVars

\* the wall clock is set back (datetime.now() is not monotonic)
ClockStepBack ==
    /\ \E c \in Clock : c < clock /\ clock' = c
    /\ UNCHANGED <<command_queue, command_history, enqueued, reads, results, built, lost>>
    /\ UNCHANGED bridgeVars
    /\ UNCHANGED loopVars

\* faulty variant: the record is queued but not added to the history
add_command_unrecorded(command, metadata) ==
    /\ Len(enqueued) < MaxCmds
    /\ LET cd == command_data(Len(enqueued) + 1, clock, command, metadata)
       IN  /\ command_queue' = Append(command_queue, cd)
           /\ command_history' = command_history
           /\ enqueued' = Append(enqueued, cd)
    /\ UNCHANGED <<clock, reads, results, lost>>
    /\ UNCHANGED bridgeVars
    /\ UNCHANGED loopVars

\* add_command: put() on the unbounded queue never suspends, so the put
\* and _add_to_history run without another coroutine in between
add_command(command, metadata) ==
    /\ Len(enqueued) < MaxCmds
    /\ LET cd == command_data(Len(enqueued) + 1, clock, command, metadata)
       IN  /\ command_queue' = Append(command_queue, cd)
           /\ command_history' = add_to_history(command_history, cd)
           /\ enqueued' = Append(enqueued, cd)
    /\ UNCHANGED <<clock, reads, results, lost>>
    /\ UNCHANGED bridgeVars
    /\ UNCHANGED loopVars

\* a producer calls add_command itself, without metadata
Producer(command) ==
    /\ add_command(command, NoMetadata)
    /\ UNCHANGED built

\* faulty variant: the records returned are taken out of the history
history_after_read_taken(hist, limit) ==
    SubSeq(hist, 1, Len(hist) - Len(get_history(hist, limit)))

\* the history list after get_history: the slice is a new list and the
\* history list itself is not touched
history_after_read(hist, limit) == hist

\* a caller reads the history
GetHistory(limit) ==
    /\ reads' = <<[limit |-> limit,
                   history |-> command_history,
                   result |-> get_history(command_history, limit)]>>
    /\ command_history' = history_after_read(command_history, limit)
    /\ UNCHANGED <<clock, command_queue, enqueued>>
    /\ UNCHANGED <<results, built, lost>>
    /\ UNCHANGED bridgeVars
    /\ UNCHANGED loopVars

\* ------------------------------------------------- MinecraftWorldManager
\* an argument with a default value is <<>> when the caller leaves it out
Given(arg, default) == IF arg = <<>> THEN default ELSE arg[1]

Optional(S) == {<<>>} \cup {<<v>> : v \in S}

\* an integer inside an f-string
str(n) == ToString(n)

\* BlockPosition.to_dict
to_dict(position) == [x |-> position.x, y |-> position.y, z |-> position.z]

\* command and metadata of place_block; data_value is not in the metadata
place_block_cmd(position, block_type, data_value) ==
    [command |-> "setblock " \o str(position.x) \o " " \o str(position.y)
                    \o " " \o str(position.z) \o " " \o block_type
                    \o " " \o str(data_value),
     metadata |-> [action |-> "place_block",
                   block_type |-> block_type,
                   position |-> to_dict(position)]]

\* faulty variant: the block removed is written with its namespace
remove_block_cmd_namespaced(position) ==
    [command |-> "setblock " \o str(position.x) \o " " \o str(position.y)
                    \o " " \o str(position.z) \o " minecraft:air",
     metadata |-> [action |-> "remove_block",
                   position |-> to_dict(position)]]

\* command and metadata of remove_block
remove_block_cmd(position) ==
    [command |-> "setblock " \o str(position.x) \o " " \o str(position.y)
                    \o " " \o str(position.z) \o " air",
     metadata |-> [action |-> "remove_block",
                   position |-> to_dict(position)]]

\* command and metadata of fill_area; fill_mode is used as it is given
fill_area_cmd(from_pos, to_pos, block_type, fill_mode) ==
    [command |-> "fill " \o str(from_pos.x) \o " " \o str(from_pos.y)
                    \o " " \o str(from_pos.z) \o " "
                    \o str(to_pos.x) \o " " \o str(to_pos.y)
                    \o " " \o str(to_pos.z) \o " " \o block_type
                    \o " " \o fill_mode,
     metadata |-> [action |-> "fill_area",
                   from |-> to_dict(from_pos),
                   to |-> to_dict(to_pos),
                   block_type |-> block_type,
                   mode |-> fill_mode]]

\* command and metadata of clone_area; clone_mode is used as it is given
clone_area_cmd(from_pos, to_pos, destination, clone_mode) ==
    [command |-> "clone " \o str(from_pos.x) \o " " \o str(from_pos.y)
                    \o " " \o str(from_pos.z) \o " "
                    \o str(to_pos.x) \o " " \o str(to_pos.y)
                    \o " " \o str(to_pos.z) \o " "
                    \o str(destination.x) \o " " \o str(destination.y)
                    \o " " \o str(destination.z) \o " " \o clone_mode,
     metadata |-> [action |-> "clone_area",
                   from |-> to_dict(from_pos),
                   to |-> to_dict(to_pos),
                   destination |-> to_dict(destination),
                   mode |-> clone_mode]]

\* faulty variant: the area is filled in destroy mode
destroy_area_cmd_destroy(from_pos, to_pos) ==
    fill_area_cmd(from_pos, to_pos, "air", "destroy")

\* destroy_area: return await self.fill_area(from_pos, to_pos, "air", "replace")
destroy_area_cmd(from_pos, to_pos) ==
    fill_area_cmd(from_pos, to_pos, "air", "replace")

\* command and metadata of execute_command; the text is not examined
execute_command_cmd(command) ==
    [command |-> command,
     metadata |-> [action |-> "raw_command", command |-> command]]

\* a call of the world manager: cmd goes to add_command, whose id is
\* returned; call is the operation and its arguments as the caller gave them
WorldManagerCall(call, cmd) ==
    /\ add_command(cmd.command, <<cmd.metadata>>)
    /\ built' = Append(built, [call |-> call, obj |-> Len(enqueued) + 1,
                                returned |-> command_id(clock)])

place_block(position, block_type, data_value) ==
    /\ Len(built) < MaxBuilds
    /\ WorldManagerCall([op |-> "place_block", position |-> position,
                         block_type |-> block_type, data_value |-> data_value],
                        place_block_cmd(position, block_type, Given(data_value, 0)))

remove_block(position) ==
    /\ Len(built) < MaxBuilds
    /\ WorldManagerCall([op |-> "remove_block", position |-> position],
                        remove_block_cmd(position))

fill_area(from_pos, to_pos, block_type, fill_mode) ==
    /\ Len(built) < MaxBuilds
    /\ WorldManagerCall([op |-> "fill_area", from_pos |-> from_pos,
                         to_pos |-> to_pos, block_type |-> block_type,
                         fill_mode |-> fill_mode],
                        fill_area_cmd(from_pos, to_pos, block_type,
                                      Given(fill_mode, "replace")))

clone_area(from_pos, to_pos, destination, clone_mode) ==
    /\ Len(built) < MaxBuilds
    /\ WorldManagerCall([op |-> "clone_area", from_pos |-> from_pos,
                         to_pos |-> to_pos, destination |-> destination,
                         clone_mode |-> clone_mode],
                        clone_area_cmd(from_pos, to_pos, destination,
                                       Given(clone_mode, "replace")))

destroy_area(from_pos, to_pos) ==
    /\ Len(built) < MaxBuilds
    /\ WorldManagerCall([op |-> "destroy_area", from_pos |-> from_pos,
                         to_pos |-> to_pos],
                        destroy_area_cmd(from_pos, to_pos))

WorldManager_execute_command(command) ==
    /\ Len(built) < MaxBuilds
    /\ WorldManagerCall([op |-> "execute_command", command |-> command],
                        execute_command_cmd(command))

\* ------------------------------------------------------------ api.py
valid_fill_modes == {"replace", "destroy", "keep", "hollow", "outline"}

valid_clone_modes == {"replace", "masked", "filtered"}

FillModes == valid_fill_modes \cup {"bogus"}

CloneModes == valid_clone_modes \cup {"bogus"}

\* FillAreaRequest.validate_fill_mode
validate_fill_mode(v) == v \in valid_fill_modes

\* CloneAreaRequest.validate_clone_mode
validate_clone_mode(v) == v \in valid_clone_modes

\* a request that fails validation is answered with an error before the
\* endpoint runs: the world manager is not called and no id is returned
Rejected(call) ==
    /\ Len(built) < MaxBuilds
    /\ built' = Append(built, [call |-> call, obj |-> None,
                                returned |-> None])
    /\ UNCHANGED <<reads, results, lost>>
    /\ UNCHANGED ledgerVars
    /\ UNCHANGED bridgeVars
    /\ UNCHANGED loopVars

\* POST /api/v1/fill_area: the endpoint calls the world manager with the
\* validated fill_mode
api_fill_area(from_pos, to_pos, block_type, fill_mode) ==
    IF validate_fill_mode(Given(fill_mode, "replace"))
    THEN fill_area(from_pos, to_pos, block_type,
                   <<Given(fill_mode, "replace")>>)
    ELSE Rejected([op |-> "fill_area", from_pos |-> from_pos,
                   to_pos |-> to_pos, block_type |-> block_type,
                   fill_mode |-> fill_mode])

\* POST /api/v1/clone_area
api_clone_area(from_pos, to_pos, destination, clone_mode) ==
    IF validate_clone_mode(Given(clone_mode, "replace"))
    THEN clone_area(from_pos, to_pos, destination,
                    <<Given(clone_mode, "replace")>>)
    ELSE Rejected([op |-> "clone_area", from_pos |-> from_pos,
                   to_pos |-> to_pos, destination |-> destination,
                   clone_mode |-> clone_mode])

\* POST /api/v1/execute_command: ExecuteCommandRequest only requires the
\* field command to be a string
api_execute_command(command) ==
    /\ command \in STRING
    /\ WorldManager_execute_command(command)

\* GET /api/v1/command_history: `if limit > 100: limit = 100`, then
\* get_history(limit); any integer is accepted as limit
get_command_history(limit) ==
    /\ reads' = <<[limit |-> limit,
                   history |-> command_history,
                   result |-> get_history(command_history,
                                         IF limit > history_cap
                                         THEN history_cap ELSE limit)]>>
    /\ command_history' =
           history_after_read(command_history,
                              IF limit > history_cap THEN history_cap ELSE limit)
    /\ UNCHANGED <<clock, command_queue, enqueued>>
    /\ UNCHANGED <<results, built, lost>>
    /\ UNCHANGED bridgeVars
    /\ UNCHANGED loopVars

\* ------------------------------------------------ MinecraftWebSocketBridge
welcome == [type |-> "welcome",
            message |-> "Connected to Minecraft Control Program (MCP)"]

ack == [type |-> "ack", message |-> "MCP server ready"]

\* faulty variant: the message is built without the record's metadata
execute_command_nometa(cd) ==
    [type |-> "execute_command",
     command_id |-> cd.id,
     command |-> cd.command,
     metadata |-> EmptyDict,
     obj |-> cd.obj]

\* the message send_command builds; obj tells which dict it was built from
execute_command(cd) ==
    [type |-> "execute_command",
     command_id |-> cd.id,
     command |-> cd.command,
     metadata |-> cd.metadata,
     obj |-> cd.obj]

is_connected == minecraft_client # None

\* _send_to_minecraft raises ConnectionClosed on a closed connection
send_raises == minecraft_client # None /\ conn[minecraft_client] # "open"

\* faulty variant: the message is never written to the connection
send_to_minecraft_nowrite(data) == outbox

\* _send_to_minecraft: writes to whatever minecraft_client is now; nothing
\* is written without a client
send_to_minecraft(data) ==
    IF minecraft_client # None /\ conn[minecraft_client] = "open"
    THEN [outbox EXCEPT ![minecraft_client] = Append(@, data)]
    ELSE outbox

\* faulty variant: the check for a missing client is left out, so the guarded
\* _send_to_minecraft writes nothing and the call still returns True
send_command_unchecked == ~send_raises

\* send_command's return value: False without a client (line 142) or when
\* the write raises (line 156), True otherwise
send_command == minecraft_client # None /\ ~send_raises

\* connections are accepted in the order of their numbers
NextConn == 1 + Cardinality({c \in Conns : conn[c] # "new"})

\* _handle_client up to the receive loop: become the current client and
\* send the welcome
Accept(c) ==
    /\ server
    /\ c = NextConn
    /\ conn[c] = "new"
    /\ minecraft_client' = c
    /\ conn' = [conn EXCEPT ![c] = "open"]
    /\ outbox' = [outbox EXCEPT ![c] = Append(@, welcome)]
    /\ replaced' = IF minecraft_client = None THEN replaced
                   ELSE [replaced EXCEPT ![minecraft_client] = c]
    /\ UNCHANGED <<server, inbound, reads, results, built, lost>>
    /\ UNCHANGED ledgerVars
    /\ UNCHANGED loopVars

\* faulty variant: the decode error of a malformed message is not caught
message_raises_malformed(msg_type) == msg_type = "malformed"

\* _handle_minecraft_message catches JSONDecodeError and Exception, so
\* nothing is raised into the receive loop
message_raises(msg_type) == FALSE

\* one turn of the receive loop for the n-th message of a connection at
\* most: _handle_minecraft_message(message) for a message that is not a
\* command_result; an exception raised into the loop would end the handler
\* through its except and finally clauses
ReceiveUpTo(c, msg_type, n) ==
    /\ conn[c] = "open"
    /\ inbound[c] < n
    /\ inbound' = [inbound EXCEPT ![c] = @ + 1]
    /\ outbox' = IF msg_type = "ready" THEN send_to_minecraft(ack) ELSE outbox
    /\ conn' = IF message_raises(msg_type)
               THEN [conn EXCEPT ![c] = "done"] ELSE conn
    /\ minecraft_client' = IF message_raises(msg_type)
                           THEN None ELSE minecraft_client
    /\ UNCHANGED <<server, replaced, reads, results, built, lost>>
    /\ UNCHANGED ledgerVars
    /\ UNCHANGED loopVars

\* one turn of the receive loop: _handle_minecraft_message(message) for a
\* message that is not a command_result
Receive(c, msg_type) == ReceiveUpTo(c, msg_type, MaxInbound)

\* the ids a command_result message may carry
ResultIds == {command_id(now) : now \in Clock}

\* one turn of the receive loop for a command_result message: command_id
\* and success are read from the message and logged
ReceiveResult(c, cmd_id, success) ==
    /\ conn[c] = "open"
    /\ inbound[c] < MaxInbound
    /\ inbound' = [inbound EXCEPT ![c] = @ + 1]
    /\ results' = Append(results, [command_id |-> cmd_id, success |-> success])
    /\ UNCHANGED <<minecraft_client, server, conn, outbox, replaced>>
    /\ UNCHANGED <<reads, built, lost>>
    /\ UNCHANGED ledgerVars
    /\ UNCHANGED loopVars

\* the transport of a connection closes (peer, network or server side)
ConnClose(c) ==
    /\ conn[c] = "open"
    /\ conn' = [conn EXCEPT ![c] = "closed"]
    /\ lost' = IF minecraft_client = c
               THEN lost \cup {command_queue[i].obj : i \in 1..Len(command_queue)}
               ELSE lost
    /\ UNCHANGED <<minecraft_client, server, outbox, inbound, replaced>>
    /\ UNCHANGED <<reads, results, built>>
    /\ UNCHANGED ledgerVars
    /\ UNCHANGED loopVars

\* faulty variant: the handler leaves without clearing the client
client_after_exit_kept(c) == minecraft_client

\* finally: self.minecraft_client = None, whichever connection is current
client_after_exit(c) == None

\* _handle_client leaves the receive loop on ConnectionClosed
HandlerExit(c) ==
    /\ conn[c] = "closed"
    /\ conn' = [conn EXCEPT ![c] = "done"]
    /\ minecraft_client' = client_after_exit(c)
    /\ UNCHANGED <<server, outbox, inbound, replaced, reads, results, built, lost>>
    /\ UNCHANGED ledgerVars
    /\ UNCHANGED loopVars

\* ------------------------------------------------- dispatch-loop managers
FreeTask == 1 + Cardinality({t \in Tasks : task[t].pc # "none"})

NewTask(owner) == [owner |-> owner, pc |-> "top", held |-> <<>>]

\* BridgeManager.start: bridge.start() binds the port (it raises while the
\* previous server still listens), then running = True and create_task
BridgeManager_start ==
    /\ ~server
    /\ FreeTask \in Tasks
    /\ server' = TRUE
    /\ running' = TRUE
    /\ task' = [task EXCEPT ![FreeTask] = NewTask("bridge")]
    /\ UNCHANGED <<minecraft_client, conn, outbox, inbound, replaced>>
    /\ UNCHANGED <<mcp_running, dequeued, calls, log, reads, results, built, lost>>
    /\ UNCHANGED ledgerVars

\* BridgeManager.stop: running = False, then the server stops listening
BridgeManager_stop ==
    /\ running \/ server
    /\ running' = FALSE
    /\ server' = FALSE
    /\ UNCHANGED <<minecraft_client, conn, outbox, inbound, replaced>>
    /\ UNCHANGED <<mcp_running, task, dequeued, calls, log, reads, results, built, lost>>
    /\ UNCHANGED ledgerVars

\* MCPServer.start: running = True and create_task
MCPServer_start ==
    /\ FreeTask \in Tasks
    /\ mcp_running' = TRUE
    /\ task' = [task EXCEPT ![FreeTask] = NewTask("mcp")]
    /\ UNCHANGED <<running, dequeued, calls, log, reads, results, built, lost>>
    /\ UNCHANGED ledgerVars
    /\ UNCHANGED bridgeVars

\* MCPServer.stop
MCPServer_stop ==
    /\ mcp_running
    /\ mcp_running' = FALSE
    /\ UNCHANGED <<running, task, dequeued, calls, log, reads, results, built, lost>>
    /\ UNCHANGED ledgerVars
    /\ UNCHANGED bridgeVars

\* faulty variant: the loop condition is inverted
OwnerRunning_inverted(t) ==
    IF task[t].owner = "bridge" THEN ~running ELSE ~mcp_running

\* self.running of the manager that created the task
OwnerRunning(t) ==
    IF task[t].owner = "bridge" THEN running ELSE mcp_running

\* `while self.running:` after the task was created or its sleep ended
LoopCheck(t) ==
    /\ task[t].pc = "top"
    /\ task' = [task EXCEPT ![t].pc = IF OwnerRunning(t) THEN "get" ELSE "done"]
    /\ UNCHANGED <<running, mcp_running, dequeued, calls, log, reads, results, built, lost>>
    /\ UNCHANGED ledgerVars
    /\ UNCHANGED bridgeVars

\* get_next_command times out on the empty queue and returns None
LoopTimeout(t) ==
    /\ task[t].pc = "get"
    /\ command_queue = <<>>
    /\ task' = [task EXCEPT ![t].pc = "top"]
    /\ UNCHANGED <<running, mcp_running, dequeued, calls, log, reads, results, built, lost>>
    /\ UNCHANGED ledgerVars
    /\ UNCHANGED bridgeVars

Line(msg, id) == [msg |-> msg, id |-> id]

\* the lines send_command and _process_commands log for a call that
\* returns False
FailureLines(cd) ==
    <<Line(IF minecraft_client = None THEN "No Minecraft client connected"
           ELSE "Error sending command to Minecraft", <<>>),
      Line("Failed to send command", cd.id)>>

\* faulty variant: a record whose send failed is put back on the queue
after_send_requeue(rest, cd, success) ==
    IF success THEN rest ELSE Append(rest, cd)

\* what _process_commands leaves on the queue after a send: the record is
\* not put back ("Could re-queue the command here")
after_send(rest, cd, success) == rest

\* faulty variant: a send that fails ends the loop
after_failure_exit == "done"

\* where _process_commands goes on after send_command returned False: the
\* warning is logged, the sleep runs and the loop condition is tested again
after_failure == "top"

\* BridgeManager._process_commands: get_next_command returns the head of the
\* queue and send_command runs up to the write on the connection
BridgeDispatch(t) ==
    /\ task[t].owner = "bridge"
    /\ task[t].pc = "get"
    /\ command_queue # <<>>
    /\ LET got == get_next_command(command_queue)
           cd == got.item
           sent == send_command
       IN  /\ command_queue' = after_send(got.rest, cd, sent)
           /\ dequeued' = Append(dequeued, cd)
           /\ outbox' = IF minecraft_client # None
                        THEN send_to_minecraft(execute_command(cd))
                        ELSE outbox
           /\ calls' = Append(calls, [obj |-> cd.obj,
                                      client |-> minecraft_client,
                                      ok |-> sent])
           /\ log' = IF sent THEN log ELSE log \o FailureLines(cd)
           /\ task' = [task EXCEPT ![t].pc = IF sent THEN "send"
                                            ELSE after_failure,
                                   ![t].held = IF sent THEN <<cd>> ELSE <<>>]
           /\ command_history' = history_after_get(command_history, cd)
    /\ UNCHANGED <<clock, enqueued, reads, results, built, lost>>
    /\ UNCHANGED <<minecraft_client, server, conn, inbound, replaced>>
    /\ UNCHANGED <<running, mcp_running>>

\* the awaited send completes: send_command returns True
BridgeSendDone(t) ==
    /\ task[t].pc = "send"
    /\ log' = Append(log, Line("Command sent to Minecraft", task[t].held[1].id))
    /\ task' = [task EXCEPT ![t].pc = "top", ![t].held = <<>>]
    /\ UNCHANGED <<running, mcp_running, dequeued, calls, reads, results, built, lost>>
    /\ UNCHANGED ledgerVars
    /\ UNCHANGED bridgeVars

\* MCPServer._process_commands: the record is taken and only logged
MCPDispatch(t) ==
    /\ task[t].owner = "mcp"
    /\ task[t].pc = "get"
    /\ command_queue # <<>>
    /\ command_queue' = get_next_command(command_queue).rest
    /\ dequeued' = Append(dequeued, get_next_command(command_queue).item)
    /\ log' = Append(log, Line("Processing command",
                               get_next_command(command_queue).item.id))
    /\ task' = [task EXCEPT ![t].pc = "top"]
    /\ command_history' =
           history_after_get(command_history, get_next_command(command_queue).item)
    /\ UNCHANGED <<clock, enqueued, reads, results, built, lost>>
    /\ UNCHANGED <<running, mcp_running, calls>>
    /\ UNCHANGED bridgeVars

\* the ledger alone: producers, the wall clock and a history reader
NextLedger ==
    \/ ClockTick
    \/ ClockStepBack
    \/ \E command \in Commands : Producer(command)
    \/ \E limit \in Limits : GetHistory(limit)

SpecLedger == Init /\ [][NextLedger]_vars

\* the ledger read through the API: producers, the wall clock and requests
\* to the command_history endpoint
NextHistoryApi ==
    \/ ClockTick
    \/ ClockStepBack
    \/ \E command \in Commands : Producer(command)
    \/ \E limit \in ApiLimits : get_command_history(limit)

SpecHistoryApi == Init /\ [][NextHistoryApi]_vars

\* the world manager and the ledger: direct calls and calls through the API
\* the calls of one run; the bound on calls is tested before the arguments
\* are drawn
CanCall == Len(built) < MaxBuilds

NextBuilder ==
    \/ CanCall /\ \E position \in Positions, block_type \in Blocks,
                     data_value \in Optional(DataValues) :
                      place_block(position, block_type, data_value)
    \/ CanCall /\ \E position \in Positions : remove_block(position)
    \/ CanCall /\ \E from_pos \in Positions, to_pos \in Positions,
                     block_type \in Blocks, fill_mode \in Optional(FillModes) :
                      fill_area(from_pos, to_pos, block_type, fill_mode)
    \/ CanCall /\ \E from_pos \in Positions, to_pos \in Positions,
                     destination \in Positions,
                     clone_mode \in Optional(CloneModes) :
                      clone_area(from_pos, to_pos, destination, clone_mode)
    \/ CanCall /\ \E from_pos \in Positions, to_pos \in Positions :
                      destroy_area(from_pos, to_pos)
    \/ CanCall /\ \E command \in RawCommands :
                      WorldManager_execute_command(command)
    \/ CanCall /\ \E from_pos \in Positions, to_pos \in Positions,
                     block_type \in Blocks, fill_mode \in Optional(FillModes) :
                      api_fill_area(from_pos, to_pos, block_type, fill_mode)
    \/ CanCall /\ \E from_pos \in Positions, to_pos \in Positions,
                     destination \in Positions,
                     clone_mode \in Optional(CloneModes) :
                      api_clone_area(from_pos, to_pos, destination, clone_mode)
    \/ CanCall /\ \E command \in RawCommands : api_execute_command(command)

SpecBuilder == Init /\ [][NextBuilder]_vars

\* the world manager next to a producer that calls add_command itself, so
\* that calls are made on a ledger whose history is full
NextBuilderLedger ==
    \/ NextBuilder
    \/ \E command \in Commands : Producer(command)

SpecBuilderLedger == Init /\ [][NextBuilderLedger]_vars

\* producers, BridgeManager with its dispatch loop, and the connections
Next ==
    \/ \E command \in Commands : Producer(command)
    \/ \E c \in Conns : Accept(c)
    \/ \E c \in Conns, m \in MsgTypes : Receive(c, m)
    \/ \E c \in Conns : ConnClose(c)
    \/ \E c \in Conns : HandlerExit(c)
    \/ BridgeManager_start
    \/ BridgeManager_stop
    \/ \E t \in Tasks : LoopCheck(t)
    \/ \E t \in Tasks : LoopTimeout(t)
    \/ \E t \in Tasks : BridgeDispatch(t)
    \/ \E t \in Tasks : BridgeSendDone(t)

Spec == Init /\ [][Next]_vars

\* producers and BridgeManager with its dispatch loop while no executor ever
\* connects; the event loop runs every coroutine that is ready, and the
\* one-second dequeue timeout and the 0.1 s sleep always expire
NextNoSession ==
    \/ \E command \in Commands : Producer(command)
    \/ BridgeManager_start
    \/ BridgeManager_stop
    \/ \E t \in Tasks : LoopCheck(t)
    \/ \E t \in Tasks : LoopTimeout(t)
    \/ \E t \in Tasks : BridgeDispatch(t)

SpecNoSession ==
    /\ Init
    /\ [][NextNoSession]_vars
    /\ \A t \in Tasks : /\ WF_vars(LoopCheck(t))
                        /\ WF_vars(LoopTimeout(t))
                        /\ WF_vars(BridgeDispatch(t))

\* producers, BridgeManager with its dispatch loop and connections that open
\* and close; the event loop runs every coroutine that is ready, the dequeue
\* timeout and the sleep expire and an awaited send completes
NextPipeline ==
    \/ \E command \in Commands : Producer(command)
    \/ \E c \in Conns : Accept(c)
    \/ \E c \in Conns : ConnClose(c)
    \/ \E c \in Conns : HandlerExit(c)
    \/ BridgeManager_start
    \/ BridgeManager_stop
    \/ \E t \in Tasks : LoopCheck(t)
    \/ \E t \in Tasks : LoopTimeout(t)
    \/ \E t \in Tasks : BridgeDispatch(t)
    \/ \E t \in Tasks : BridgeSendDone(t)

SpecPipeline ==
    /\ Init
    /\ [][NextPipeline]_vars
    /\ \A t \in Tasks : /\ WF_vars(LoopCheck(t))
                        /\ WF_vars(LoopTimeout(t))
                        /\ WF_vars(BridgeDispatch(t))
                        /\ WF_vars(BridgeSendDone(t))

\* MCPService.start, first half: get_mcp_server().start()
MCPService_start_mcp ==
    /\ FreeTask = 1
    /\ MCPServer_start

\* MCPService.start, second half: BridgeManager(queue).start() on the command
\* queue of the MCP server
MCPService_start_bridge ==
    /\ mcp_running
    /\ BridgeManager_start

\* the composed service of MCPService.start: producers, connections and the
\* dispatch loops of both managers on the one command queue
NextService ==
    \/ \E command \in Commands : Producer(command)
    \/ MCPService_start_mcp
    \/ MCPService_start_bridge
    \/ \E c \in Conns : Accept(c)
    \/ \E c \in Conns : ConnClose(c)
    \/ \E c \in Conns : HandlerExit(c)
    \/ \E t \in Tasks : LoopCheck(t)
    \/ \E t \in Tasks : LoopTimeout(t)
    \/ \E t \in Tasks : BridgeDispatch(t)
    \/ \E t \in Tasks : BridgeSendDone(t)
    \/ \E t \in Tasks : MCPDispatch(t)

SpecService == Init /\ [][NextService]_vars

\* records of the world manager and of direct producers on their way to an
\* executor: the wall clock, one dispatch loop and the connections
NextDelivery ==
    \/ ClockTick
    \/ \E command \in Commands : Producer(command)
    \/ CanCall /\ \E position \in Positions : remove_block(position)
    \/ CanCall /\ \E command \in RawCommands :
                      WorldManager_execute_command(command)
    \/ BridgeManager_start
    \/ \E c \in Conns : Accept(c)
    \/ \E t \in Tasks : LoopCheck(t)
    \/ \E t \in Tasks : LoopTimeout(t)
    \/ \E t \in Tasks : BridgeDispatch(t)
    \/ \E t \in Tasks : BridgeSendDone(t)

SpecDelivery == Init /\ [][NextDelivery]_vars

\* producers, history readers, one dispatch loop and a connection
NextReaders ==
    \/ \E command \in Commands : Producer(command)
    \/ \E limit \in Limits : GetHistory(limit)
    \/ BridgeManager_start
    \/ \E c \in Conns : Accept(c)
    \/ \E t \in Tasks : LoopCheck(t)
    \/ \E t \in Tasks : LoopTimeout(t)
    \/ \E t \in Tasks : BridgeDispatch(t)
    \/ \E t \in Tasks : BridgeSendDone(t)

SpecReaders == Init /\ [][NextReaders]_vars

\* producers, one dispatch loop and connections that send several messages
NextInbound ==
    \/ \E command \in Commands : Producer(command)
    \/ BridgeManager_start
    \/ \E c \in Conns : Accept(c)
    \/ \E c \in Conns, m \in MsgTypes : ReceiveUpTo(c, m, MaxStream)
    \/ \E c \in Conns : ConnClose(c)
    \/ \E t \in Tasks : LoopCheck(t)
    \/ \E t \in Tasks : LoopTimeout(t)
    \/ \E t \in Tasks : BridgeDispatch(t)
    \/ \E t \in Tasks : BridgeSendDone(t)

SpecInbound == Init /\ [][NextInbound]_vars

\* one dispatch loop, the connections and their command_result messages,
\* with the wall clock moving so that records get different ids
NextResults ==
    \/ ClockTick
    \/ \E command \in Commands : Producer(command)
    \/ BridgeManager_start
    \/ \E c \in Conns : Accept(c)
    \/ \E c \in Conns, id \in ResultIds, success \in BOOLEAN :
           ReceiveResult(c, id, success)
    \/ \E c \in Conns : ConnClose(c)
    \/ \E t \in Tasks : LoopCheck(t)
    \/ \E t \in Tasks : LoopTimeout(t)
    \/ \E t \in Tasks : BridgeDispatch(t)
    \/ \E t \in Tasks : BridgeSendDone(t)

SpecResults == Init /\ [][NextResults]_vars

\* ================================================================ claims
\* execute_command messages written to connection c, in order
Executes(c) == SelectSeq(outbox[c], LAMBDA m : m.type = "execute_command")

\* number of execute_command messages built from the dict object o
TimesSent(o) ==
    Cardinality(UNION {{<<c, i>> : i \in {k \in 1..Len(outbox[c]) :
                                            /\ outbox[c][k].type = "execute_command"
                                            /\ outbox[c][k].obj = o}} :
                       c \in Conns})

Objs(seq) == {seq[i].obj : i \in 1..Len(seq)}

\* C1: the records get_next_command returns are the enqueued records in
\* enqueue order, none skipped and none twice; send_command is called on them
\* in that order, so the execute_command messages of every connection are in
\* enqueue order too.
C1_FifoOrder ==
    /\ dequeued \o command_queue = enqueued
    /\ Len(calls) = Len(dequeued)
    /\ \A i \in 1..Len(calls) : calls[i].obj = enqueued[i].obj
    /\ \A c \in Conns : \A i, j \in 1..Len(Executes(c)) :
           i < j => Executes(c)[i].obj < Executes(c)[j].obj

\* two records were dequeued and sent while a third one waits
C1_Witness ==
    /\ Len(dequeued) >= 2
    /\ command_queue # <<>>
    /\ calls[1].ok /\ calls[2].ok

\* C2: every record is the subject of at most one execute_command message
\* over all connections, and a record that get_next_command returned is
\* never on the queue again, whatever the outcome of its send.
C2_AtMostOnce ==
    /\ \A o \in Objs(enqueued) : TimesSent(o) <= 1
    /\ Objs(dequeued) \cap Objs(command_queue) = {}
    /\ Len(dequeued) + Len(command_queue) = Len(enqueued)

\* one send succeeded, one raised on a closed connection, one found no session
C2_Witness ==
    /\ \E i \in 1..Len(calls) : calls[i].ok
    /\ \E i \in 1..Len(calls) : ~calls[i].ok /\ calls[i].client # None
    /\ \E i \in 1..Len(calls) : calls[i].client = None

\* the calls of send_command that found no session attached
NoSessionCalls == {i \in 1..Len(calls) : calls[i].client = None}

\* places of the log where send_command's "No Minecraft client connected" is
\* followed by _process_commands' "Failed to send command"
DropLines ==
    {j \in 1..(Len(log) - 1) :
        /\ log[j].msg = "No Minecraft client connected"
        /\ log[j + 1].msg = "Failed to send command"}

\* C3 as stated: a record handled with no session attached is marked dropped
C3_MarkedDropped ==
    \A i \in NoSessionCalls : \A k \in 1..Len(command_history) :
        command_history[k].obj = calls[i].obj
            => command_history[k].status = "dropped"

\* C3 amended: a record handled with no session attached is off the queue,
\* is never the subject of an execute_command message on any connection, keeps
\* status queued, and the drop is recorded by the two warnings only.
C3_DroppedNotRedelivered ==
    /\ \A i \in NoSessionCalls :
          /\ ~calls[i].ok
          /\ calls[i].obj \notin Objs(command_queue)
          /\ TimesSent(calls[i].obj) = 0
          /\ \A k \in 1..Len(command_history) :
                command_history[k].obj = calls[i].obj
                    => command_history[k].status = "queued"
    /\ Cardinality(DropLines) = Cardinality(NoSessionCalls)

\* a record was dropped with no session, then a connection was accepted and
\* a later record was sent on it
C3_Witness ==
    /\ Len(calls) >= 2
    /\ calls[1].client = None
    /\ calls[2].ok
    /\ calls[1].obj \in Objs(command_history)

\* the connection accepted last
Latest == NextConn - 1

\* a step in which send_command is called
SendCalled == Len(calls') = Len(calls) + 1

LastCall == calls'[Len(calls')]

\* C4 as stated: once connection c2 was accepted over the current connection
\* c1, every send_command is routed to c2 while c2 is the open connection
\* accepted last, and c1 is never written to again; c1 may close meanwhile.
C4_RoutedToSecond ==
    [][\A c1, c2 \in Conns :
          replaced[c1] = c2 =>
              /\ outbox'[c1] = outbox[c1]
              /\ (SendCalled /\ Latest = c2 /\ conn[c2] = "open") =>
                    /\ LastCall.client = c2
                    /\ LastCall.ok
                    /\ Len(Executes(c2)') = Len(Executes(c2)) + 1]_vars

\* C5 as stated: at most one accepted connection is in its receive loop
C5_AtMostOneServed ==
    Cardinality({c \in Conns : conn[c] = "open"}) <= 1

\* no connection is attached, or the attached one is closed
NoLiveSession ==
    minecraft_client = None \/ conn[minecraft_client] # "open"

\* C6: when the handler of the current session's connection ends, the
\* session becomes empty (is_connected() false); and from the close of that
\* connection until another one is accepted every send_command returns False
\* and writes to no connection.
C6_ClosedSessionDrops ==
    [][/\ \A c \in Conns :
              (minecraft_client = c /\ conn[c] = "closed" /\ conn'[c] = "done")
                  => ~is_connected'
       /\ (SendCalled /\ NoLiveSession) =>
              (~LastCall.ok /\ outbox' = outbox)]_vars

\* the current session's connection closed, a send raised on it, its handler
\* ended, and a later send found no session
C6_Witness ==
    /\ minecraft_client = None
    /\ \E c \in Conns : conn[c] = "done"
    /\ \E i, j \in 1..Len(calls) :
          /\ i < j
          /\ calls[i].client # None /\ ~calls[i].ok
          /\ calls[j].client = None /\ ~calls[j].ok

\* C7 as stated: get_history(limit) is the last min(limit, total) records
C7_HistoryLimit ==
    \A i \in 1..Len(reads) :
        reads[i].result =
            LastN(reads[i].history, Min(reads[i].limit, Len(reads[i].history)))

\* C8: the history never holds more than max_history records, it is the
\* last min(total, max_history) enqueued records in enqueue order, and once
\* more than max_history were enqueued the first is not in
\* get_history(max_history).
C8_HistoryBounded ==
    /\ Len(command_history) <= max_history
    /\ command_history = LastN(enqueued, max_history)
    /\ Len(enqueued) > max_history =>
          enqueued[1] \notin Range(get_history(command_history, max_history))

\* one record more than max_history was enqueued
C8_Witness ==
    /\ Len(enqueued) = max_history + 1
    /\ Len(command_history) = max_history

\* C9 as stated: ids are strictly increasing (hence distinct) in call order
C9_IdsIncreasing ==
    \A i, j \in 1..Len(enqueued) :
        i < j => IdNum(enqueued[i].id) < IdNum(enqueued[j].id)

\* the records whose send_command call has returned True
Delivered ==
    {calls[i].obj : i \in {k \in 1..Len(calls) : calls[k].ok}}
        \ {task[t].held[1].obj : t \in {u \in Tasks : task[u].pc = "send"}}

\* C10 as stated: a record sent successfully shows status dispatched in the
\* history
C10_StatusDispatched ==
    \A k \in 1..Len(command_history) :
        command_history[k].obj \in Delivered
            => command_history[k].status = "dispatched"

\* send_command calls whose write on the attached connection raised
FailedWrites == {i \in 1..Len(calls) : calls[i].client # None /\ ~calls[i].ok}

\* C11 as stated: a record whose transport write raised while a session was
\* attached has status failed in the history, is not on the queue again and
\* is in no execute_command message.
C11_StatusFailed ==
    \A i \in FailedWrites :
        /\ TimesSent(calls[i].obj) = 0
        /\ calls[i].obj \notin Objs(command_queue)
        /\ \A k \in 1..Len(command_history) :
              command_history[k].obj = calls[i].obj =>
                  command_history[k].status = "failed"

\* a command_result message is handled in this step
ResultReceived == Len(results') = Len(results) + 1

LastResult == results'[Len(results')]

StatusFor(success) == IF success THEN "acknowledged" ELSE "failed"

\* C12 as stated: when a command_result message with command_id c is
\* handled, every history record with id c gets status acknowledged
\* (success true) or failed (success false), and the records with other ids
\* are left as they were.
C12_ResultSetsStatus ==
    [][ResultReceived =>
          /\ Len(command_history') = Len(command_history)
          /\ \A k \in 1..Len(command_history) :
                IF command_history[k].id = LastResult.command_id
                THEN command_history'[k] =
                         [command_history[k] EXCEPT
                             !.status = StatusFor(LastResult.success)]
                ELSE command_history'[k] = command_history[k]]_vars

Statuses == {"queued", "dispatched", "acknowledged", "failed"}

\* queued comes before dispatched, dispatched before acknowledged and failed
Rank(st) == CASE st = "queued" -> 0
              [] st = "dispatched" -> 1
              [] OTHER -> 2

\* the records the ledger holds, on the queue or in the history
Held == Range(command_queue) \cup Range(command_history)

\* C13: every record the ledger holds has one of the four statuses; a record
\* is created with status queued; and no step moves the status of a record
\* back to an earlier one.
C13_StatusLifecycle ==
    [][/\ \A r \in Held' : r.status \in Statuses
       /\ Len(enqueued') = Len(enqueued) + 1 =>
              /\ enqueued'[Len(enqueued')].status = "queued"
              /\ command_queue'[Len(command_queue')] = enqueued'[Len(enqueued')]
              /\ command_history'[Len(command_history')] = enqueued'[Len(enqueued')]
       /\ \A r \in Held : \A r2 \in Held' :
              r.obj = r2.obj => Rank(r2.status) >= Rank(r.status)]_vars

\* a record was written to a connection and a command_result for its id was
\* received while the history still shows it; another record's write raised
C13_Witness ==
    /\ \E i \in 1..Len(calls), k \in 1..Len(command_history), j \in 1..Len(results) :
          /\ calls[i].ok
          /\ command_history[k].obj = calls[i].obj
          /\ results[j].command_id = command_history[k].id
    /\ FailedWrites # {}

\* no connection is open: the period between two executors
NoneOpen == \A c \in Conns : conn[c] # "open"

\* C14 as stated: a record that was queued when the session closed stays
\* available until it is delivered, also when the dispatch loop runs while
\* no executor is connected: whenever the loop has taken such a record,
\* send_command has handed it to a connection.
C14_QueuedSurviveDisconnect ==
    \A i \in 1..Len(calls) : calls[i].obj \in lost => calls[i].ok

\* C14 amended: the close of a connection and the end of its handler leave
\* queue and history as they are; a record the loop takes while a live
\* session is attached is written to that session's connection; a record the
\* loop takes while no live session is attached is written to no connection,
\* is not put back and is never written later.
C14_SurviveUntilTaken ==
    [][/\ conn' # conn =>
              /\ command_queue' = command_queue
              /\ command_history' = command_history
       /\ SendCalled =>
              /\ LastCall.ok <=> ~NoLiveSession
              /\ LastCall.ok =>
                     /\ Len(outbox'[minecraft_client]) = Len(outbox[minecraft_client]) + 1
                     /\ outbox'[minecraft_client][Len(outbox'[minecraft_client])].obj
                            = LastCall.obj
              /\ ~LastCall.ok =>
                     /\ outbox' = outbox
                     /\ LastCall.obj \notin Objs(command_queue')
       /\ \A i \in 1..Len(calls) :
              ~calls[i].ok => \A c \in Conns :
                  \A k \in (Len(outbox[c]) + 1)..Len(outbox'[c]) :
                      outbox'[c][k].type = "execute_command" =>
                          outbox'[c][k].obj # calls[i].obj]_vars

\* of two records queued when the session closed, the loop took one while no
\* connection was there and the other after the next one was accepted
C14_Witness ==
    \E i, j \in 1..Len(calls) :
        /\ calls[i].obj \in lost /\ calls[i].client = None /\ ~calls[i].ok
        /\ calls[j].obj \in lost /\ calls[j].client = MaxConns /\ calls[j].ok

\* stop() was called on the BridgeManager after loop task t was created:
\* either running is still False, or a later task exists (start() creates
\* one only when the server of the previous start() was stopped)
StoppedSince(t) ==
    /\ task[t].owner = "bridge"
    /\ \/ ~running
       \/ \E u \in Tasks : u > t /\ task[u].pc # "none"

\* C15 as stated: after stop() the dispatch loop exits at its next check of
\* running, so it takes at most the one record it was already waiting for;
\* and while every loop task has exited no record leaves the queue.
C15_LoopExitsAfterStop ==
    [][/\ \A t \in Tasks :
              (StoppedSince(t) /\ task[t].pc = "top" /\ task'[t].pc # "top")
                  => task'[t].pc = "done"
       /\ (\A t \in Tasks : task[t].pc \in {"none", "done"})
              => Len(dequeued') = Len(dequeued)]_vars

\* C16: with the dispatch loop running and no session attached, every record
\* on the queue is eventually taken off it (unless the manager is stopped);
\* such a take writes to no connection, leaves the history and the records
\* of the producers as they are, and the loop task goes on to its next
\* iteration.
C16_DrainsWithoutSession ==
    /\ \A o \in 1..MaxCmds :
           (running /\ o \in Objs(command_queue))
               ~> (~running \/ o \notin Objs(command_queue))
    /\ (running /\ command_queue # <<>>) ~> (~running \/ command_queue = <<>>)
    /\ [][(SendCalled /\ minecraft_client = None) =>
              /\ ~LastCall.ok
              /\ LastCall.obj \notin Objs(command_queue')
              /\ outbox' = outbox
              /\ enqueued' = enqueued
              /\ command_history' = command_history
              /\ \E t \in Tasks : task[t].pc = "get" /\ task'[t].pc = "top"
              /\ \A t \in Tasks : task'[t].pc = "done" => task[t].pc = "done"]_vars

\* three records were enqueued and taken with no session attached; the
\* queue is empty, the manager runs and a loop task is in its next iteration
C16_Witness ==
    /\ Len(enqueued) = 3
    /\ Len(calls) = 3
    /\ \A i \in 1..Len(calls) : calls[i].client = None /\ ~calls[i].ok
    /\ command_queue = <<>>
    /\ running
    /\ \E t \in Tasks : task[t].pc \in {"top", "get"}

\* calls of the world manager or requests to the API made so far
Calls(op) == {i \in 1..Len(built) : built[i].call.op = op}

\* the record a call enqueued
RecordOf(i) == enqueued[built[i].obj]

\* C17 as stated: a fill_area call with a mode outside replace, destroy,
\* keep, hollow, outline and a clone_area call with a mode outside replace,
\* masked, filtered are rejected: no record is enqueued for them and no id
\* is returned.
C17_InvalidModeRejected ==
    /\ \A i \in Calls("fill_area") :
           Given(built[i].call.fill_mode, "replace") \notin valid_fill_modes
               => built[i].obj = None
    /\ \A i \in Calls("clone_area") :
           Given(built[i].call.clone_mode, "replace") \notin valid_clone_modes
               => built[i].obj = None
    /\ Len(enqueued) = Cardinality({i \in 1..Len(built) : built[i].obj # None})

\* C18 as stated: execute_command with the empty text is rejected and
\* nothing is enqueued for it.
C18_EmptyCommandRejected ==
    /\ \A i \in Calls("execute_command") :
           built[i].call.command = "" => built[i].obj = None
    /\ \A k \in 1..Len(command_queue) : command_queue[k].command # ""
    /\ \A k \in 1..Len(command_history) : command_history[k].command # ""

Digit(d) == CASE d = 0 -> "0" [] d = 1 -> "1" [] d = 2 -> "2" [] d = 3 -> "3"
              [] d = 4 -> "4" [] d = 5 -> "5" [] d = 6 -> "6" [] d = 7 -> "7"
              [] d = 8 -> "8" [] d = 9 -> "9"

RECURSIVE Decimal(_)
\* the decimal numeral of an integer
Decimal(n) ==
    IF n < 0 THEN "-" \o Decimal(0 - n)
    ELSE IF n < 10 THEN Digit(n)
    ELSE Decimal(n \div 10) \o Digit(n % 10)

RECURSIVE Words(_)
\* the words of a sequence separated by single spaces
Words(w) ==
    IF Len(w) = 1 THEN w[1] ELSE w[1] \o " " \o Words(Tail(w))

XYZ(p) == <<Decimal(p.x), Decimal(p.y), Decimal(p.z)>>

\* the command text the grammar prescribes for a call of the world manager
TextOf(call) ==
    CASE call.op = "place_block" ->
             Words(<<"setblock">> \o XYZ(call.position)
                   \o <<call.block_type,
                        IF call.data_value = <<>> THEN "0"
                        ELSE Decimal(call.data_value[1])>>)
      [] call.op = "remove_block" ->
             Words(<<"setblock">> \o XYZ(call.position) \o <<"air">>)
      [] call.op = "fill_area" ->
             Words(<<"fill">> \o XYZ(call.from_pos) \o XYZ(call.to_pos)
                   \o <<call.block_type,
                        IF call.fill_mode = <<>> THEN "replace"
                        ELSE call.fill_mode[1]>>)
      [] call.op = "clone_area" ->
             Words(<<"clone">> \o XYZ(call.from_pos) \o XYZ(call.to_pos)
                   \o XYZ(call.destination)
                   \o <<IF call.clone_mode = <<>> THEN "replace"
                        ELSE call.clone_mode[1]>>)
      [] call.op = "execute_command" -> call.command

\* calls of place, remove, fill, clone and raw with a valid mode
ValidCalls ==
    {i \in 1..Len(built) :
        /\ built[i].obj # None
        /\ built[i].call.op # "destroy_area"
        /\ built[i].call.op = "fill_area" =>
               Given(built[i].call.fill_mode, "replace") \in valid_fill_modes
        /\ built[i].call.op = "clone_area" =>
               Given(built[i].call.clone_mode, "replace") \in valid_clone_modes}

\* C19: the text of the record enqueued by place, remove, fill, clone and
\* raw is the verb and the arguments in the order of the grammar, integers
\* as decimal numerals, separated by single spaces, with data value 0 and
\* mode replace when they are left out; the raw text is taken unmodified.
C19_CommandText ==
    \A i \in ValidCalls : RecordOf(i).command = TextOf(built[i].call)

\* place with the data value left out, then fill in hollow mode
C19_Witness ==
    /\ Len(built) = 2
    /\ built[1].call.op = "place_block"
    /\ built[1].call.data_value = <<>>
    /\ RecordOf(1).command = "setblock 100 64 100 minecraft:stone 0"
    /\ built[2].call.op = "fill_area"
    /\ RecordOf(2).command = "fill 0 64 0 5 64 5 minecraft:stone hollow"

\* a record without the identity, id and timestamp add_command gave it
Content(r) == [command |-> r.command, metadata |-> r.metadata,
               status |-> r.status]

\* fill_area calls with the arguments destroy_area(from_pos, to_pos) stands for
SameAsFill(from_pos, to_pos) ==
    {j \in Calls("fill_area") :
        /\ built[j].call.from_pos = from_pos
        /\ built[j].call.to_pos = to_pos
        /\ built[j].call.block_type = "air"
        /\ built[j].call.fill_mode = <<"replace">>}

\* C20: the record destroy_area(from, to) enqueues has the text and the
\* metadata of fill_area(from, to, "air", "replace"), metadata action
\* fill_area included, and is queued and recorded like it: apart from id
\* and timestamp it equals the record of every such fill_area call.
C20_DestroyIsFill ==
    \A i \in Calls("destroy_area") :
        LET c == built[i].call
            r == RecordOf(i)
        IN  /\ r.command = Words(<<"fill">> \o XYZ(c.from_pos) \o XYZ(c.to_pos)
                                 \o <<"air", "replace">>)
            /\ r.metadata = [action |-> "fill_area",
                             from |-> [x |-> c.from_pos.x, y |-> c.from_pos.y,
                                       z |-> c.from_pos.z],
                             to |-> [x |-> c.to_pos.x, y |-> c.to_pos.y,
                                     z |-> c.to_pos.z],
                             block_type |-> "air",
                             mode |-> "replace"]
            /\ r.status = "queued"
            /\ command_queue[built[i].obj] = r
            /\ r \in Range(command_history)
            /\ \A j \in SameAsFill(c.from_pos, c.to_pos) :
                   /\ Content(RecordOf(j)) = Content(r)
                   /\ Content(command_queue[built[j].obj]) = Content(r)

\* destroy_area and fill_area with "air" and "replace" were called on the
\* same two corners
C20_Witness ==
    \E i \in Calls("destroy_area") :
        /\ built[i].call.from_pos # built[i].call.to_pos
        /\ SameAsFill(built[i].call.from_pos, built[i].call.to_pos) # {}

\* a call of the world manager returns in this step
BuilderReturned ==
    /\ Len(built') = Len(built) + 1
    /\ built'[Len(built')].obj # None

NewRecord == enqueued'[Len(enqueued')]

\* C21: a call of the world manager that returns an id makes one enqueue:
\* one record with status queued is appended to the queue and to the history,
\* the history loses its oldest entry and nothing else when it was full, the
\* other records stay as they were, and the id returned is the new record's.
C21_OneEnqueue ==
    [][BuilderReturned =>
          /\ Len(enqueued') = Len(enqueued) + 1
          /\ NewRecord.status = "queued"
          /\ NewRecord.obj = built'[Len(built')].obj
          /\ NewRecord.obj \notin Objs(enqueued)
          /\ command_queue' = Append(command_queue, NewRecord)
          /\ command_history' =
                 IF Len(command_history) < max_history
                 THEN Append(command_history, NewRecord)
                 ELSE Append(Tail(command_history), NewRecord)
          /\ built'[Len(built')].returned = NewRecord.id]_vars

\* a call returned on a ledger whose history was full: the oldest entry is
\* gone and the record of the call is the newest
C21_Witness ==
    /\ Len(enqueued) = max_history + 1
    /\ built # <<>>
    /\ built[Len(built)].obj = max_history + 1
    /\ command_history = SubSeq(enqueued, 2, max_history + 1)
    /\ Len(command_queue) = max_history + 1

\* connection c handles a message in this step and no ack is written: the
\* message is malformed, of unknown type or of type error (or a ready that
\* finds no live client)
HandledWithoutAck(c) ==
    /\ inbound'[c] = inbound[c] + 1
    /\ outbox' = outbox

\* C22: handling a malformed message, one of unknown type or one of type
\* error leaves queue, history, every record and the current session as they
\* were and does not end the connection's receive loop, so the next message
\* of the connection is handled too.
C22_BadMessageIgnored ==
    [][\A c \in Conns : HandledWithoutAck(c) =>
          /\ command_queue' = command_queue
          /\ command_history' = command_history
          /\ enqueued' = enqueued
          /\ minecraft_client' = minecraft_client
          /\ conn' = conn
          /\ conn'[c] = "open"
          /\ task' = task]_vars

\* the only connection accepted is the live session, it has sent two
\* messages and got no ack, so neither was a ready: the second one was
\* handled after a message of the three kinds; a record is in the history
C22_Witness ==
    /\ NextConn = 2
    /\ minecraft_client = 1
    /\ conn[1] = "open"
    /\ inbound[1] = 2
    /\ \A k \in 1..Len(outbox[1]) : outbox[1][k].type # "ack"
    /\ command_history # <<>>
    /\ command_queue # <<>>

\* C23: no failure stops the pipeline. A dispatch loop ends only at its loop
\* test and only when running is False; a send that fails, a missing session
\* and a dequeue timeout take the loop back to its test; and while the
\* manager is running every queued record is taken and send_command is
\* called for it, whatever failed before.
C23_PipelineKeepsGoing ==
    /\ [][\A t \in Tasks :
              /\ (task'[t].pc = "done" /\ task[t].pc # "done")
                     => (task[t].pc = "top" /\ ~running)
              /\ (task[t].pc = "get" /\ task'[t].pc # "get")
                     => \/ task'[t].pc = "top"
                        \/ task'[t].pc = "send" /\ SendCalled /\ LastCall.ok]_vars
    /\ \A o \in 1..MaxCmds :
           (running /\ o \in Objs(command_queue))
               ~> (~running \/ \E k \in 1..Len(calls) : calls[k].obj = o)

\* a send failed on a closed connection, the next record found no session,
\* and the record after that was sent to a new session
C23_Witness ==
    /\ running
    /\ Len(calls) = 3
    /\ calls[1].client # None /\ ~calls[1].ok
    /\ calls[2].client = None /\ ~calls[2].ok
    /\ calls[3].client # None /\ calls[3].ok
    /\ \A t \in Tasks : task[t].pc # "done"

\* how often the record of call o is in a sequence of records
Copies(seq, o) == Cardinality({i \in 1..Len(seq) : seq[i].obj = o})

\* the place of the record of call o in a sequence that holds it once
PlaceOf(seq, o) == CHOOSE i \in 1..Len(seq) : seq[i].obj = o

\* C24: however add_command calls interleave with each other and with the
\* dispatch loops, every call has put exactly one record on the queue (it
\* is still there or was taken once) and exactly one into the history (it
\* is still there or was evicted as one of the oldest), and two records
\* that are in both stand in the same order in both.
C24_Serialized ==
    /\ \A o \in 1..Len(enqueued) :
           /\ Copies(enqueued, o) = 1
           /\ Copies(command_queue, o) + Copies(dequeued, o) = 1
           /\ Copies(command_history, o) =
                  IF o > Len(enqueued) - max_history THEN 1 ELSE 0
    /\ Len(command_queue) + Len(dequeued) = Len(enqueued)
    /\ Len(command_history) = Min(Len(enqueued), max_history)
    /\ \A a, b \in Objs(command_queue) \cap Objs(command_history) :
           PlaceOf(command_queue, a) < PlaceOf(command_queue, b)
               <=> PlaceOf(command_history, a) < PlaceOf(command_history, b)

\* three calls were made while a loop was taking records: two records are
\* both on the queue and in the history, the first was taken and evicted
C24_Witness ==
    /\ Len(enqueued) = max_history + 1
    /\ Len(dequeued) = 1
    /\ Cardinality(Objs(command_queue) \cap Objs(command_history)) = 2

\* C25 as stated: whatever integer limit is requested and however many
\* records the history holds, the command_history endpoint returns at most
\* history_cap records
C25_EndpointCapped ==
    \A i \in 1..Len(reads) : Len(reads[i].result) <= history_cap

\* get_history returns in this step
HistoryRead == reads' # <<>> /\ reads' # reads

\* C26: a call of get_history, whatever its limit, leaves the queue, the
\* history and every record as they were, in content and in order.
C26_ReadOnly ==
    [][HistoryRead =>
          /\ command_queue' = command_queue
          /\ command_history' = command_history
          /\ enqueued' = enqueued
          /\ reads'[1].history = command_history']_vars

\* a read that returned the newer of two records of a history that still
\* holds both, with both still on the queue
C26_Witness ==
    /\ reads # <<>>
    /\ Len(reads[1].result) = 1
    /\ Len(command_history) = 2
    /\ reads[1].history = command_history
    /\ reads[1].result[1] = command_history[2]
    /\ Len(command_queue) = 2

\* a step of a dispatch loop: its loop test, a dequeue that times out or
\* returns a record, the send and what follows it
LoopStep == task' # task /\ enqueued' = enqueued /\ running' = running

\* C27: no step of a dispatch loop changes the history, whether the dequeue
\* times out or returns a record and whether the record is sent, fails or is
\* dropped; the history changes only when add_command adds a record, and a
\* record that has left the queue is in the history as long as it is among
\* the max_history newest.
C27_HistoryIndependent ==
    /\ [][/\ LoopStep => command_history' = command_history
          /\ command_history' # command_history =>
                 Len(enqueued') = Len(enqueued) + 1]_vars
    /\ [](\A i \in 1..Len(dequeued) :
             dequeued[i].obj > Len(enqueued) - max_history
                 => \E k \in 1..Len(command_history) :
                        command_history[k] = dequeued[i])

\* three records have left the queue, one sent, one failed on a closed
\* connection and one dropped without session; the two newest are the
\* history, in enqueue order
C27_Witness ==
    /\ command_queue = <<>>
    /\ Len(dequeued) = 3
    /\ command_history = SubSeq(dequeued, 2, 3)
    /\ \E i \in 1..3 : calls[i].ok
    /\ \E i \in 1..3 : calls[i].client # None /\ ~calls[i].ok
    /\ \E i \in 1..3 : calls[i].client = None

\* the dispatch-loop tasks of a manager that have not ended
ActiveTasks(owner) ==
    {t \in Tasks : task[t].owner = owner /\ task[t].pc \in {"top", "get", "send"}}

\* C28 as stated: whatever start() and stop() calls are made, a manager has
\* at most one dispatch-loop task that has not ended
C28_OneLoopTask ==
    \A owner \in {"bridge", "mcp"} : Cardinality(ActiveTasks(owner)) <= 1

\* get_next_command returns a record in this step
Taken == Len(dequeued') = Len(dequeued) + 1

\* C29 as stated: in the composed service every record taken from the queue
\* while a session is attached is passed to send_command in the same turn
\* of the loop, and an execute_command message for it is written to the
\* session when its connection is open
C29_TakenIsForwarded ==
    [][(Taken /\ minecraft_client # None) =>
          /\ SendCalled
          /\ LastCall.obj = dequeued'[Len(dequeued')].obj
          /\ conn[minecraft_client] = "open" =>
                 \E k \in 1..Len(outbox'[minecraft_client]) :
                     /\ outbox'[minecraft_client][k].type = "execute_command"
                     /\ outbox'[minecraft_client][k].obj =
                            dequeued'[Len(dequeued')].obj]_vars

\* the calls of the world manager that enqueued the record of dict object o
BuiltAs(o) == {i \in 1..Len(built) : built[i].obj = o}

\* C30: every execute_command message written to a connection carries the
\* record it was built from: command_id is the record's id, the id
\* add_command returned to the world manager; command is the record's text
\* (for a raw command the text the caller gave); metadata is the record's
\* metadata, the empty mapping for a record enqueued without metadata.
C30_MessageCarriesRecord ==
    \A c \in Conns : \A k \in 1..Len(Executes(c)) :
        LET m == Executes(c)[k]
            r == enqueued[m.obj]
        IN  /\ m.command_id = r.id
            /\ m.command = r.command
            /\ m.metadata = r.metadata
            /\ \A i \in BuiltAs(m.obj) :
                   /\ m.command_id = built[i].returned
                   /\ m.command = TextOf(built[i].call)
                   /\ m.metadata.action =
                          (IF built[i].call.op = "execute_command"
                           THEN "raw_command" ELSE built[i].call.op)
            /\ BuiltAs(m.obj) = {} =>
                   /\ m.command \in Commands
                   /\ DOMAIN m.metadata = {}

\* three messages were written: one for a record a producer enqueued
\* without metadata, one for a raw command and one for a remove_block, with
\* ids taken at different readings of the clock
C30_Witness ==
    \E c \in Conns :
        /\ Len(Executes(c)) = 3
        /\ \E k \in 1..3 : BuiltAs(Executes(c)[k].obj) = {}
        /\ \E k \in 1..3 : Executes(c)[k].metadata # EmptyDict
                              /\ Executes(c)[k].metadata.action = "raw_command"
        /\ \E k \in 1..3 : Executes(c)[k].metadata # EmptyDict
                              /\ Executes(c)[k].metadata.action = "remove_block"
        /\ Executes(c)[1].command_id # Executes(c)[3].command_id

\* record r was appended to history hist: it is in it, or hist is full of
\* records enqueued after r, which have pushed it out
AppendedTo(hist, r) ==
    \/ \E k \in 1..Len(hist) : hist[k] = r
    \/ /\ Len(hist) = max_history
       /\ \A k \in 1..Len(hist) : hist[k].obj > r.obj

\* C31: when get_next_command returns a record, the record has already been
\* appended to the history (the history of the state before the return),
\* and so has every record an execute_command message was written for,
\* however producers, the dispatch loop and history readers interleave.
C31_HistoryBeforeQueue ==
    /\ [][Taken => AppendedTo(command_history, dequeued'[Len(dequeued')])]_vars
    /\ [](\A c \in Conns : \A k \in 1..Len(Executes(c)) :
             AppendedTo(command_history, enqueued[Executes(c)[k].obj]))
    /\ [](\A k \in 1..Len(command_queue) :
             AppendedTo(command_history, command_queue[k]))

\* a reader saw a record in the history, the record was taken from the queue
\* as the second one and a message was written for it while it is still in
\* the history; the first record taken has been pushed out of the history
C31_Witness ==
    /\ Len(dequeued) = 2
    /\ Len(enqueued) = max_history + 1
    /\ reads # <<>>
    /\ dequeued[2] \in Range(reads[1].history)
    /\ dequeued[2] \in Range(command_history)
    /\ dequeued[1] \notin Range(command_history)
    /\ \E c \in Conns : \E k \in 1..Len(Executes(c)) :
           Executes(c)[k].obj = dequeued[2].obj

\* the handler of connection c ends in this step
HandlerEnds(c) == conn[c] # "done" /\ conn'[c] = "done"

\* C32 as stated: the session is cleared only when the handler of the
\* connection that is the session ends; when the handler of a connection
\* that was replaced ends, the newer connection stays attached and
\* is_connected() stays true
C32_OnlyOwnCloseClears ==
    [][/\ (minecraft_client # None /\ minecraft_client' = None)
              => HandlerEnds(minecraft_client)
       /\ \A c \in Conns :
              (HandlerEnds(c) /\ minecraft_client # None /\ minecraft_client # c)
                  => (minecraft_client' = minecraft_client /\ is_connected')]_vars

\* connection c is accepted in this step
Accepted(c) == conn[c] = "new" /\ conn'[c] = "open"

\* connection c hands a message to _handle_minecraft_message in this step
Handled(c) == inbound'[c] = inbound[c] + 1

\* C33 as stated: the welcome of a connection is written to that connection
\* and to no other, and whatever is written while a message of connection c
\* is handled (the ack for a ready) is written to c, also when another
\* connection was accepted in between
C33_HandshakeOnOwnConnection ==
    [][\A c \in Conns :
          /\ Accepted(c) =>
                 /\ outbox'[c] = Append(outbox[c], welcome)
                 /\ \A d \in Conns \ {c} : outbox'[d] = outbox[d]
          /\ Handled(c) =>
                 /\ outbox'[c] \in {outbox[c], Append(outbox[c], ack)}
                 /\ \A d \in Conns \ {c} : outbox'[d] = outbox[d]]_vars

\* C34 as stated: an execute_command message is written to a connection
\* only after the welcome was written to it, a message (the ready) was
\* received from it and the ack was written to it
C34_NoCommandBeforeHandshake ==
    \A c \in Conns : \A k \in 1..Len(outbox[c]) :
        outbox[c][k].type = "execute_command" =>
            /\ inbound[c] >= 1
            /\ \E i, j \in 1..(k - 1) :
                   /\ i < j
                   /\ outbox[c][i] = welcome
                   /\ outbox[c][j] = ack

\* C35 as stated: every record waiting in the queue is in the history and
\* is returned by get_history with a limit as large as the backlog,
\* whatever the size of the backlog
C35_QueuedInHistory ==
    \A k \in 1..Len(command_queue) :
        /\ command_queue[k] \in Range(command_history)
        /\ command_queue[k] \in
               Range(get_history(command_history, Len(enqueued) + 1))

\* the "Command sent to Minecraft" lines: send_command calls that have
\* returned True to the dispatch loop
SentLines == {k \in 1..Len(log) : log[k].msg = "Command sent to Minecraft"}

\* connection c was handed the execute_command message of the record of
\* dict object o
HandedTo(c, o) ==
    \E k \in 1..Len(outbox[c]) : outbox[c][k] = execute_command(enqueued[o])

\* C36: a send_command call is on its way to True only in a step that
\* finds a client attached and writes the execute_command message of its
\* record to that client's connection; so every call that returns True, and
\* every "Command sent" line, has its message on a connection, however
\* connects and disconnects interleave with the call.
C36_TrueMeansHanded ==
    /\ [][(SendCalled /\ LastCall.ok) =>
              /\ minecraft_client # None
              /\ LastCall.client = minecraft_client
              /\ outbox'[minecraft_client] =
                     Append(outbox[minecraft_client],
                            execute_command(enqueued[LastCall.obj]))]_vars
    /\ [](\A i \in 1..Len(calls) :
             calls[i].ok => /\ calls[i].client # None
                            /\ HandedTo(calls[i].client, calls[i].obj))
    /\ [](\A k \in SentLines :
             \E i \in 1..Len(calls) :
                 /\ calls[i].ok
                 /\ enqueued[calls[i].obj].id = log[k].id
                 /\ HandedTo(calls[i].client, calls[i].obj))

\* a call has written its message and waits for the write to complete when
\* the connection closes and its handler clears the session; an earlier
\* call has returned True
C36_Witness ==
    /\ minecraft_client = None
    /\ SentLines # {}
    /\ \E t \in Tasks :
           /\ task[t].pc = "send"
           /\ \E c \in Conns : conn[c] = "done"
                                /\ HandedTo(c, task[t].held[1].obj)

====
